---- MODULE Spec2Model ----
(***************************************************************************)
(* A model of rzlib, a streaming gzip / DEFLATE decoder:                   *)
(*   bitreader.rs       BitRead / BitReader                                *)
(*   huffman.rs         Codeword, HuffmanTree                              *)
(*   lookbackbuffer.rs  LookbackBuffer                                     *)
(*   rzlibreader.rs     RZLibReader, the resumable state machine           *)
(*                                                                         *)
(* The byte source R under the BitReader is an in-memory cursor over a     *)
(* fixed byte string: read(buf) copies min(|buf|, remaining) bytes, and    *)
(* fill_buf returns everything that is left.  A source is the record       *)
(* [id, len]: the first len bytes of Inputs[id].                           *)
(*                                                                         *)
(* Results of fallible operations are records with ok = TRUE or with       *)
(* ok = FALSE and err the io::ErrorKind ("InvalidData", "InvalidInput",    *)
(* "UnexpectedEof", "Other"); err = "panic" stands for a Rust panic        *)
(* (todo!(), a failed assert_eq!, an index out of bounds).                 *)
(***************************************************************************)
EXTENDS Integers, Sequences, FiniteSets, TLC

\* cmp::min
Min(a, b) == IF a <= b THEN a ELSE b

\* 1 << n
Pow2(n) == 2 ^ n

\* x & bitmask(n), for n < 64
MaskBits(x, n) == x % Pow2(n)

\* x >> n
ShiftRight(x, n) == x \div Pow2(n)

\* a | b on non-negative integers, bit by bit
RECURSIVE BitOr(_, _)
BitOr(a, b) ==
    IF a = 0 THEN b
    ELSE IF b = 0 THEN a
    ELSE (IF a % 2 = 1 \/ b % 2 = 1 THEN 1 ELSE 0) + 2 * BitOr(a \div 2, b \div 2)

Err(kind, rd) == [ok |-> FALSE, err |-> kind, rd |-> rd]

\* an error of a handler that had already written lb to the lookback buffer
ErrLb(kind, rd, lb) == [ok |-> FALSE, err |-> kind, rd |-> rd, lb |-> lb]

\* `let v = ...;` followed by K, which uses v
With(v, K(_)) == K(v)

\* `r?` followed by K: an Err is returned as it is, and K goes on with an Ok
Try(r, K(_)) == IF r.ok THEN K(r) ELSE r

\* `r?` where r comes from the Huffman tree or the lookback buffer, which
\* know nothing of the reader: the reader rd is kept beside the error
TryAt(r, rd, K(_)) == IF r.ok THEN K(r) ELSE Err(r.err, rd)

\* `r?` in a handler that has already written lb to the lookback buffer
TryLb(r, lb, K(_)) == IF r.ok THEN K(r) ELSE ErrLb(r.err, r.rd, lb)

\* const LOOKBACK_WINDOW_SIZE: usize = 2_usize.pow(15)
LOOKBACK_WINDOW_SIZE == 32768

\* the longest code length a length vector holds: code lengths are the
\* symbols 0..15 of the code-length alphabet, or 3-bit numbers
MaxCodeLen == 15

(***************************************************************************)
(* Bounds of the model                                                     *)
(***************************************************************************)
\* read is called with dst of 1..SmallDst bytes, and with a dst of
\* LOOKBACK_WINDOW_SIZE + OverWindow bytes
SmallDst == 2

OverWindow == 1

(***************************************************************************)
(* The inputs: gzip files as byte strings.  CRC32 and ISIZE are those of   *)
(* the payload.                                                            *)
(***************************************************************************)
\* the minimal gzip of the empty string: one final fixed-Huffman block, 03 00
EmptyFixed ==
    <<31, 139, 8, 0, 0, 0, 0, 0, 0, 3, 3, 0, 0, 0, 0, 0, 0, 0, 0, 0>>

\* one final stored block, LEN = 3, NLEN = 0xFFFC, "abc"
StoredAbc ==
    <<31, 139, 8, 0, 0, 0, 0, 0, 0, 3, 1, 3, 0, 252, 255, 97, 98, 99, 194,
      65, 36, 53, 3, 0, 0, 0>>

\* two members, each one final stored block "A"
TwoStoredA ==
    <<31, 139, 8, 0, 0, 0, 0, 0, 0, 3, 1, 1, 0, 254, 255, 65, 139, 158, 217,
      211, 1, 0, 0, 0, 31, 139, 8, 0, 0, 0, 0, 0, 0, 3, 1, 1, 0, 254, 255,
      65, 139, 158, 217, 211, 1, 0, 0, 0>>

\* two members, each one final fixed-Huffman block encoding "A" (73 04 00)
TwoFixedA ==
    <<31, 139, 8, 0, 0, 0, 0, 0, 0, 3, 115, 4, 0, 139, 158, 217, 211, 1, 0,
      0, 0, 31, 139, 8, 0, 0, 0, 0, 0, 0, 3, 115, 4, 0, 139, 158, 217, 211,
      1, 0, 0, 0>>

\* one final dynamic block: literal 'a', match (length 10, distance 1), end of block
DynRepeat ==
    <<31, 139, 8, 0, 0, 0, 0, 0, 0, 3, 69, 192, 33, 1, 0, 0, 0, 128, 160,
      173, 252, 63, 97, 20, 11, 146, 93, 70, 85, 11, 0, 0, 0>>

\* a block header with BFINAL = 1, BTYPE = 3 (07), then two more bytes
Btype3 ==
    <<31, 139, 8, 0, 0, 0, 0, 0, 0, 3, 7, 170, 85>>

\* stored "hi", stored "", then a final dynamic block: literal 'x', match (3, 3), end of block
MultiBlock ==
    <<31, 139, 8, 0, 0, 0, 0, 0, 0, 3, 0, 2, 0, 253, 255, 104, 105, 0, 0, 0,
      255, 255, 13, 194, 1, 9, 0, 0, 0, 128, 160, 219, 206, 47, 208, 2, 163,
      2, 233, 195, 6, 0, 0, 0>>

\* FLG = FHCRC|FEXTRA|FNAME|FCOMMENT, extra "ex", name "n", comment "c"; one final stored block "Z"
FullHeader ==
    <<31, 139, 8, 30, 0, 0, 0, 0, 0, 3, 2, 0, 101, 120, 110, 0, 99, 0, 177,
      70, 1, 1, 0, 254, 255, 90, 103, 87, 188, 89, 1, 0, 0, 0>>

\* ID2 is 0x8c
BadMagic ==
    <<31, 140, 8, 0>>

\* CM is 7
BadCm ==
    <<31, 139, 7, 0>>

\* a stored block whose NLEN is not ~LEN
BadNlen ==
    <<31, 139, 8, 0, 0, 0, 0, 0, 0, 3, 1, 1, 0, 0, 0, 65, 139, 158, 217, 211,
      1, 0, 0, 0>>

\* a dynamic block whose literal/length codes are 00, 01, 10: literal 'a', then the bits 11
Undecodable ==
    <<31, 139, 8, 0, 0, 0, 0, 0, 0, 3, 13, 192, 1, 1, 0, 0, 0, 128, 160, 172,
      246, 47, 161, 48, 0, 67, 190, 183, 232, 1, 0, 0, 0>>

\* one final stored block of LOOKBACK_WINDOW_SIZE + 1 bytes, the i-th of them
\* i % 251
BigStoredLen == LOOKBACK_WINDOW_SIZE + 1

BigStored ==
    <<31, 139, 8, 0, 0, 0, 0, 0, 0, 3, 1, 1, 128, 254, 127>>
    \o [i \in 1..BigStoredLen |-> i % 251]
    \o <<146, 174, 62, 58, 1, 128, 0, 0>>

\* a dynamic block that is not final: literal 'a', end of block; then a final stored block "b"
DynThenStored ==
    <<31, 139, 8, 0, 0, 0, 0, 0, 0, 3, 4, 192, 129, 0, 0, 0, 0, 0, 144, 86,
      255, 19, 24, 1, 0, 254, 255, 98, 109, 72, 131, 158, 2, 0, 0, 0>>

\* one final dynamic block whose code lengths begin with the symbol 16 (repeat
\* count 3), then 18, 1, 18, 18, 1, 1; then the codes of literal 'a' and of
\* end of block under the lengths 97 -> 1, 256 -> 1
Repeat16First ==
    <<31, 139, 8, 0, 0, 0, 0, 0, 0, 3, 5, 192, 5, 1, 0, 0, 0, 0, 32, 105, 74,
      255, 18, 32, 67, 190, 183, 232, 1, 0, 0, 0>>

\* a stored block of LOOKBACK_WINDOW_SIZE bytes that is not final, then a
\* final dynamic block: match (length 258, distance 32768), end of block
FarMatch ==
    <<31, 139, 8, 0, 0, 0, 0, 0, 0, 3, 0, 0, 128, 255, 127>>
    \o [i \in 1..LOOKBACK_WINDOW_SIZE |-> i % 251]
    \o <<237, 221, 129, 0, 0, 0, 0, 0, 144, 255, 107, 35, 74, 244, 255, 1, 63,
         29, 47, 65, 2, 129, 0, 0>>

\* one final dynamic block with HLIT = 0, HDIST = 0, so 258 code lengths,
\* whose code-length symbols are 18 (repeat count 138) twice
RepeatOverrun ==
    <<31, 139, 8, 0, 0, 0, 0, 0, 0, 3, 5, 0, 128, 192, 223, 31, 0, 0, 0, 0, 0,
      0, 0, 0>>

\* one final dynamic block with HLIT = 30, codes of length 2 for 97, 256 and
\* 286: the symbol 286, literal 'a', end of block
Litlen286 ==
    <<31, 139, 8, 0, 0, 0, 0, 0, 0, 3, 245, 192, 1, 1, 0, 0, 0, 128, 160, 172,
      246, 47, 97, 18, 9, 1, 67, 190, 183, 232, 1, 0, 0, 0>>

\* one final dynamic block with HDIST = 30 and a code for the distance symbol
\* 30 alone: the length symbol 257, the distance symbol 30, end of block
Dist30 ==
    <<31, 139, 8, 0, 0, 0, 0, 0, 0, 3, 13, 222, 129, 0, 0, 0, 0, 0, 144, 255,
      107, 78, 4, 0, 0, 0, 0, 0, 0, 0, 0>>

\* one final dynamic block: literal 'a', match (length 3, distance 2), end
\* of block
MatchTooFar ==
    <<31, 139, 8, 0, 0, 0, 0, 0, 0, 3, 13, 193, 1, 9, 0, 0, 0, 128, 160, 173,
      254, 63, 81, 104, 1, 67, 190, 183, 232, 1, 0, 0, 0>>

\* FLG = FNAME, the name is the byte ff; one final stored block ""
BadName ==
    <<31, 139, 8, 8, 0, 0, 0, 0, 0, 3, 255, 0, 1, 0, 0, 255, 255, 0, 0, 0, 0,
      0, 0, 0, 0>>

\* FLG = FCOMMENT, the comment is the byte ff; one final stored block ""
BadComment ==
    <<31, 139, 8, 16, 0, 0, 0, 0, 0, 3, 255, 0, 1, 0, 0, 255, 255, 0, 0, 0, 0,
      0, 0, 0, 0>>

\* FLG = FEXTRA, XLEN = 1, the extra field is the byte ff; one final stored block ""
BadExtra ==
    <<31, 139, 8, 4, 0, 0, 0, 0, 0, 3, 1, 0, 255, 1, 0, 0, 255, 255, 0, 0, 0,
      0, 0, 0, 0, 0>>

Inputs ==
    <<EmptyFixed, StoredAbc, TwoStoredA, TwoFixedA, DynRepeat, Btype3, MultiBlock,
      FullHeader, BadMagic, BadCm, BadNlen, Undecodable, BigStored, DynThenStored,
      Repeat16First, FarMatch, RepeatOverrun, Litlen286, Dist30, MatchTooFar,
      BadName, BadComment, BadExtra>>

\* the sources: every prefix of every input but the long one, which is
\* taken whole
SourceLens(id) ==
    IF Len(Inputs[id]) > LOOKBACK_WINDOW_SIZE
    THEN {Len(Inputs[id])}
    ELSE 0..Len(Inputs[id])

Sources ==
    UNION {{[id |-> id, len |-> len] : len \in SourceLens(id)} : id \in DOMAIN Inputs}

\* the sizes of dst a read of the source s is called with (the long input is
\* read a window or more at a time)
DstSizes(s) ==
    IF Len(Inputs[s.id]) > LOOKBACK_WINDOW_SIZE
    THEN {LOOKBACK_WINDOW_SIZE, LOOKBACK_WINDOW_SIZE + OverWindow}
    ELSE (1..SmallDst) \cup {LOOKBACK_WINDOW_SIZE + OverWindow}

(***************************************************************************)
(* The byte source: a cursor over the first s.len bytes of Inputs[s.id].   *)
(***************************************************************************)
SrcByte(s, i) == Inputs[s.id][i]

\* the n bytes that follow the first `from` bytes of the source
SrcSlice(s, from, n) == [i \in 1..n |-> SrcByte(s, from + i)]

\* number of bytes from position `from` up to and including the first `delim`,
\* or up to the end of the source when there is none
RECURSIVE ScanUntil(_, _, _, _)
ScanUntil(s, from, delim, k) ==
    IF from + k >= s.len THEN k
    ELSE IF SrcByte(s, from + k + 1) = delim THEN k + 1
    ELSE ScanUntil(s, from, delim, k + 1)

(***************************************************************************)
(* bitreader.rs: BitReader { reader, bits_count, bits }.  rd.pos is the    *)
(* number of bytes taken from the byte source so far.                      *)
(***************************************************************************)
BitReader_new == [pos |-> 0, bits |-> 0, bits_count |-> 0]

drop_remaining_bits(rd) == [rd EXCEPT !.bits = 0, !.bits_count = 0]

\* self.reader.read_exact(buf) on the byte source, |buf| = n.  A short source
\* is drained and the call fails.
inner_read_exact(s, rd, n) ==
    IF s.len - rd.pos >= n
    THEN [ok |-> TRUE, rd |-> [rd EXCEPT !.pos = @ + n], val |-> SrcSlice(s, rd.pos, n)]
    ELSE Err("UnexpectedEof", [rd EXCEPT !.pos = s.len])

\* uN::from_le_bytes, for N <= 16
RECURSIVE from_le_bytes(_)
from_le_bytes(bytes) ==
    IF bytes = <<>> THEN 0 ELSE Head(bytes) + 256 * from_le_bytes(Tail(bytes))

read_u8(s, rd) ==
    Try(inner_read_exact(s, rd, 1), LAMBDA buf : [buf EXCEPT !.val = from_le_bytes(@)])

read_u16(s, rd) ==
    Try(inner_read_exact(s, rd, 2), LAMBDA buf : [buf EXCEPT !.val = from_le_bytes(@)])

\* The u32 is kept as its four little-endian bytes: no caller looks at it.
read_u32(s, rd) == inner_read_exact(s, rd, 4)

\* impl BufRead for BitReader: fill_buf.  val is whether the returned slice
\* is empty.
fill_buf(s, rd) ==
    IF rd.bits_count # 0 THEN Err("panic", rd)
    ELSE [ok |-> TRUE, rd |-> rd, val |-> (rd.pos >= s.len)]

\* impl Read for BitReader: read into a buffer of n bytes; val is what the
\* source put there
BitReader_read(s, rd, n) ==
    IF rd.bits_count # 0 THEN Err("panic", rd)
    ELSE [ok  |-> TRUE,
          rd  |-> [rd EXCEPT !.pos = @ + Min(n, s.len - rd.pos)],
          val |-> SrcSlice(s, rd.pos, Min(n, s.len - rd.pos))]

\* Read::read_exact (the default method) on the BitReader: it calls read
\* until the buffer is full, and fails when read returns 0.
BitReader_read_exact(s, rd, n) ==
    IF n = 0 THEN [ok |-> TRUE, rd |-> rd, val |-> <<>>]
    ELSE IF rd.bits_count # 0 THEN Err("panic", rd)
    ELSE inner_read_exact(s, rd, n)

\* BufRead::read_until (the default method) on the BitReader: val is what was
\* appended to the buffer, the delimiter included when it was found.
read_until(s, rd, delim) ==
    IF rd.bits_count # 0 THEN Err("panic", rd)
    ELSE With(ScanUntil(s, rd.pos, delim, 0), LAMBDA k :
           [ok |-> TRUE, rd |-> [rd EXCEPT !.pos = @ + k], val |-> SrcSlice(s, rd.pos, k)])

\* the same without `self.bits >>= bits_from_partial`
take_from_partial_unshifted(rd, n) ==
    LET bits_from_partial == Min(n, rd.bits_count)
    IN  [ok  |-> TRUE,
         rd  |-> [rd EXCEPT !.bits_count = @ - bits_from_partial],
         buf |-> MaskBits(rd.bits, bits_from_partial),
         n   |-> bits_from_partial]

\* read_bits from `at this point, n > 0 and self.bits_count > 0` on
take_from_partial(rd, n) ==
    LET bits_from_partial == Min(n, rd.bits_count)
    IN  [ok  |-> TRUE,
         rd  |-> [rd EXCEPT !.bits = ShiftRight(@, bits_from_partial),
                            !.bits_count = @ - bits_from_partial],
         buf |-> MaskBits(rd.bits, bits_from_partial),
         n   |-> bits_from_partial]

\* impl BitRead for BitReader: read_bits.  n is the number of bits handed
\* out, buf the caller's buffer afterwards.
BitReader_read_bits(s, rd, buf, n) ==
    IF n = 0 THEN [ok |-> TRUE, rd |-> rd, buf |-> buf, n |-> 0]
    ELSE IF rd.bits_count = 0
    THEN \* try to fill partial, and bail early if EOF
         Try(fill_buf(s, rd), LAMBDA byte_buf :
           IF byte_buf.val
           THEN [ok |-> TRUE, rd |-> rd, buf |-> buf, n |-> 0]
           ELSE take_from_partial([pos |-> rd.pos + 1,
                                   bits |-> SrcByte(s, rd.pos + 1),
                                   bits_count |-> 8], n))
    ELSE take_from_partial(rd, n)

(***************************************************************************)
(* huffman.rs: Codeword { len, code }, a bit source used by the tests.     *)
(***************************************************************************)
Codeword_new(len, code) == [len |-> len, code |-> code]

\* Codeword's read_bits without `self.code >>= n`
Codeword_read_bits_unshifted(cw, buf, n) ==
    [ok  |-> TRUE,
     rd  |-> cw,
     buf |-> BitOr(buf, MaskBits(cw.code, Min(n, cw.len))),
     n   |-> Min(n, cw.len)]

\* impl BitRead for Codeword: read_bits (len is left as it is)
Codeword_read_bits(cw, buf, n) ==
    [ok  |-> TRUE,
     rd  |-> [cw EXCEPT !.code = ShiftRight(@, Min(n, cw.len))],
     buf |-> BitOr(buf, MaskBits(cw.code, Min(n, cw.len))),
     n   |-> Min(n, cw.len)]

\* BitRead::read_bits, dispatched on the implementor
read_bits(s, rd, buf, n) ==
    IF "code" \in DOMAIN rd THEN Codeword_read_bits(rd, buf, n)
    ELSE BitReader_read_bits(s, rd, buf, n)

\* BitRead::read_bits_exact: the loop, with its locals out, buf, total_read
RECURSIVE read_bits_exact_loop(_, _, _, _, _, _)
read_bits_exact_loop(s, rd, n, out, buf, total_read) ==
    IF total_read < n
    THEN Try(read_bits(s, rd, buf, n - total_read), LAMBDA r :
           IF r.n = 0 THEN Err("UnexpectedEof", r.rd)
           ELSE read_bits_exact_loop(s, r.rd, n,
                                     BitOr(out, r.buf * Pow2(total_read)),
                                     r.buf, total_read + r.n))
    ELSE [ok |-> TRUE, rd |-> rd, val |-> out]

read_bits_exact(s, rd, n) == read_bits_exact_loop(s, rd, n, 0, 0, 0)

(***************************************************************************)
(* huffman.rs: HuffmanTree.  A tree is a function from the paths of its    *)
(* nodes (sequences of bits from the root, <<>> being the root) to the     *)
(* node's value: <<>> for None, <<v>> for Some(v).  A child exists when    *)
(* its path is in the domain.                                              *)
(***************************************************************************)
HuffmanTree_new == [p \in {<<>>} |-> <<>>]

RECURSIVE reverse_bits_loop(_, _, _)
reverse_bits_loop(a, b, len) ==
    IF len = 0 THEN b
    ELSE reverse_bits_loop(a \div 2, 2 * b + (a % 2), len - 1)

\* reverse_bits that hands the code back as it came
reverse_bits_not(a, len) == a

reverse_bits(a, len) == reverse_bits_loop(a, 0, len)

\* insert_impl at the node `node`; a node that already holds a value panics
RECURSIVE insert_impl(_, _, _, _, _)
insert_impl(tree, node, val, code, len) ==
    IF tree[node] # <<>> THEN [ok |-> FALSE, err |-> "panic"]
    ELSE IF len = 0 THEN [ok |-> TRUE, tree |-> [tree EXCEPT ![node] = <<val>>]]
    ELSE With(Append(node, code % 2), LAMBDA child :
           insert_impl(IF child \in DOMAIN tree THEN tree ELSE (child :> <<>>) @@ tree,
                       child, val, code \div 2, len - 1))

insert(tree, val, cw) == insert_impl(tree, <<>>, val, cw.code, cw.len)

\* bl_count after the counting loop: entry k counts the lengths equal to k
\* (k = 0 included)
bl_count_of(lengths) ==
    [k \in 0..31 |-> Cardinality({i \in DOMAIN lengths : lengths[i] = k})]

\* `code` after the iteration `bits` of the next_code loop
RECURSIVE code_after(_, _)
code_after(bl_count, bits) ==
    IF bits = 0 THEN 0
    ELSE (code_after(bl_count, bits - 1) + bl_count[bits - 1]) * 2

\* next_code after its loop.  The source fills entries 1..32; those above
\* MaxCodeLen are never read, and are left out.
next_code_of(lengths) ==
    With(bl_count_of(lengths), LAMBDA bl_count :
      [bits \in 1..MaxCodeLen |-> code_after(bl_count, bits)])

\* the first index from b on whose length is not 0, or lengths.len();
\* lengths[i + 1] is the source's lengths[i]
NextUsed(lengths, b) ==
    LET used == {i \in b..(Len(lengths) - 1) : lengths[i + 1] # 0}
    IN  IF used = {} THEN Len(lengths)
        ELSE CHOOSE i \in used : \A j \in used : i <= j

\* the loop `for b in 0..n` of new_from_lengths, entered at index b: the
\* iterations with l = 0 do nothing, and are passed over in one go
RECURSIVE assign_codes(_, _, _, _)
assign_codes(lengths, b, tree, next_code) ==
    With(NextUsed(lengths, b), LAMBDA u :
      IF u >= Len(lengths) THEN [ok |-> TRUE, tree |-> tree]
      ELSE With(lengths[u + 1], LAMBDA l :
             Try(insert(tree, u, Codeword_new(l, reverse_bits(next_code[l], l))),
                 LAMBDA r : assign_codes(lengths, u + 1, r.tree,
                                         [next_code EXCEPT ![l] = @ + 1]))))

new_from_lengths(lengths) ==
    assign_codes(lengths, 0, HuffmanTree_new, next_code_of(lengths))

\* decode at the node `node`: val is <<>> for Ok(None), <<v>> for Ok(Some(v))
RECURSIVE decode_at(_, _, _, _)
decode_at(tree, node, s, rd) ==
    IF tree[node] # <<>> THEN [ok |-> TRUE, rd |-> rd, val |-> tree[node]]
    ELSE Try(read_bits_exact(s, rd, 1), LAMBDA r :
           IF Append(node, r.val) \in DOMAIN tree
           THEN decode_at(tree, Append(node, r.val), s, r.rd)
           ELSE [ok |-> TRUE, rd |-> r.rd, val |-> <<>>])

decode(tree, s, rd) == decode_at(tree, <<>>, s, rd)

(***************************************************************************)
(* lookbackbuffer.rs: LookbackBuffer { data, pos }.  size is data.len().   *)
(* data maps the indices written so far to their bytes; an index outside   *)
(* its domain still holds the 0 that new() put there.  new(0) panics: it   *)
(* yields no buffer but the record of the panic.                           *)
(***************************************************************************)
LookbackBuffer_new(lookback_size) ==
    IF lookback_size = 0
    THEN [ok |-> FALSE, err |-> "panic"]
    ELSE [size |-> lookback_size, data |-> [i \in {} |-> 0], pos |-> 0]

DataAt(data, i) == IF i \in DOMAIN data THEN data[i] ELSE 0

\* &data[from .. from + n]
DataSlice(data, from, n) == [i \in 1..n |-> DataAt(data, from + i - 1)]

\* data[at .. at + |bytes|].copy_from_slice(bytes)
CopyFromSlice(data, at, bytes) ==
    [i \in (DOMAIN data) \cup (at..(at + Len(bytes) - 1)) |->
        IF i >= at /\ i < at + Len(bytes) THEN bytes[i - at + 1] ELSE data[i]]

\* write_data whose pos is not taken modulo the size
write_data_unwrapped(lb, buf) ==
    IF Len(buf) > lb.size THEN [ok |-> FALSE, err |-> "InvalidInput"]
    ELSE
      LET space_left_before_wraparound == lb.size - lb.pos
          first_chunk_len == space_left_before_wraparound
      IN  [ok |-> TRUE,
           lb |-> [lb EXCEPT
                     !.data =
                       IF Len(buf) <= space_left_before_wraparound
                       THEN CopyFromSlice(lb.data, lb.pos, buf)
                       ELSE CopyFromSlice(
                              CopyFromSlice(lb.data, lb.pos, SubSeq(buf, 1, first_chunk_len)),
                              0, SubSeq(buf, first_chunk_len + 1, Len(buf))),
                     !.pos = lb.pos + Len(buf)]]

write_data(lb, buf) ==
    IF Len(buf) > lb.size THEN [ok |-> FALSE, err |-> "InvalidInput"]
    ELSE
      LET space_left_before_wraparound == lb.size - lb.pos
          first_chunk_len == space_left_before_wraparound
      IN  [ok |-> TRUE,
           lb |-> [lb EXCEPT
                     !.data =
                       IF Len(buf) <= space_left_before_wraparound
                       THEN CopyFromSlice(lb.data, lb.pos, buf)
                       ELSE \* we need to chunk
                            CopyFromSlice(
                              CopyFromSlice(lb.data, lb.pos, SubSeq(buf, 1, first_chunk_len)),
                              0, SubSeq(buf, first_chunk_len + 1, Len(buf))),
                     !.pos = (lb.pos + Len(buf)) % lb.size]]

write_byte(lb, b) ==
    [ok |-> TRUE,
     lb |-> [lb EXCEPT !.data = CopyFromSlice(lb.data, lb.pos, <<b>>),
                       !.pos = (lb.pos + 1) % lb.size]]

\* read_lookback_exact into a buffer of n bytes: val is the buffer afterwards
read_lookback_exact(lb, n, distance) ==
    IF n > distance THEN [ok |-> FALSE, err |-> "InvalidInput"]
    ELSE IF distance > lb.size THEN [ok |-> FALSE, err |-> "InvalidInput"]
    ELSE IF lb.pos > distance
    THEN \* we can lookback without wrapping around
         [ok |-> TRUE, val |-> DataSlice(lb.data, lb.pos - distance, n)]
    ELSE \* we must wrap around
         LET wraparound_distance == distance - lb.pos
             wraparound_pos      == lb.size - wraparound_distance
             wraparound_length   == Min(n, lb.size - wraparound_pos)
             remaining_length    == n - wraparound_length
         IN  [ok  |-> TRUE,
              val |-> DataSlice(lb.data, wraparound_pos, wraparound_length)
                      \o DataSlice(lb.data, 0, remaining_length)]

(***************************************************************************)
(* rzlibreader.rs: the states of the decoder                               *)
(***************************************************************************)
BrokenStream  == [tag |-> "BrokenStream"]
MemberHeader  == [tag |-> "MemberHeader"]
BlockHeader   == [tag |-> "BlockHeader"]
MemberTrailer == [tag |-> "MemberTrailer"]
EndOfFile     == [tag |-> "EndOfFile"]

NoCompressionBlock(len, is_final) ==
    [tag |-> "NoCompressionBlock", len |-> len, is_final |-> is_final]

HuffmanBlock(litlen_tree, distance_tree, is_final) ==
    [tag |-> "HuffmanBlock", litlen_tree |-> litlen_tree,
     distance_tree |-> distance_tree, is_final |-> is_final]

HuffmanBlockMatch(litlen_tree, distance_tree, length, distance, is_final) ==
    [tag |-> "HuffmanBlockMatch", litlen_tree |-> litlen_tree,
     distance_tree |-> distance_tree, length |-> length,
     distance |-> distance, is_final |-> is_final]

\* whether a sequence of bytes is well-formed UTF-8: what String::from_utf8
\* accepts
Cont(b) == b >= 128 /\ b <= 191

RECURSIVE from_utf8_ok(_)
from_utf8_ok(bytes) ==
    LET n == Len(bytes)
        b == bytes[1]
        At(i) == bytes[i]
        Rest(k) == SubSeq(bytes, k + 1, n)
    IN  IF n = 0 THEN TRUE
        ELSE IF b < 128 THEN from_utf8_ok(Rest(1))
        ELSE IF b >= 194 /\ b <= 223
             THEN n >= 2 /\ Cont(At(2)) /\ from_utf8_ok(Rest(2))
        ELSE IF b >= 224 /\ b <= 239
             THEN /\ n >= 3
                  /\ CASE b = 224 -> At(2) >= 160 /\ At(2) <= 191
                       [] b = 237 -> At(2) >= 128 /\ At(2) <= 159
                       [] OTHER   -> Cont(At(2))
                  /\ Cont(At(3))
                  /\ from_utf8_ok(Rest(3))
        ELSE IF b >= 240 /\ b <= 244
             THEN /\ n >= 4
                  /\ CASE b = 240 -> At(2) >= 144 /\ At(2) <= 191
                       [] b = 244 -> At(2) >= 128 /\ At(2) <= 143
                       [] OTHER   -> Cont(At(2))
                  /\ Cont(At(3))
                  /\ Cont(At(4))
                  /\ from_utf8_ok(Rest(4))
        ELSE FALSE

read_cstring(s, rd) ==
    Try(read_until(s, rd, 0), LAMBDA buf :
      IF buf.val = <<>> \/ buf.val[Len(buf.val)] # 0
      THEN Err("InvalidData", buf.rd)
      ELSE IF ~from_utf8_ok(SubSeq(buf.val, 1, Len(buf.val) - 1))
      THEN Err("Other", buf.rd)
      ELSE [ok |-> TRUE, rd |-> buf.rd])

\* read_member_header: the `if fextra` block
read_fextra(s, rd) ==
    Try(read_u16(s, rd), LAMBDA xlen :
    Try(BitReader_read_exact(s, xlen.rd, xlen.val), LAMBDA fextra_buf :
      IF ~from_utf8_ok(fextra_buf.val)
      THEN Err("InvalidData", fextra_buf.rd)
      ELSE [ok |-> TRUE, rd |-> fextra_buf.rd]))

\* whether bit k of flg is set
FlagBit(flg, k) == ShiftRight(flg, k) % 2 = 1

read_member_header(s, rd) ==
    Try(fill_buf(s, rd), LAMBDA peek :
      IF peek.val THEN [ok |-> TRUE, rd |-> rd, state |-> EndOfFile]
      ELSE
    Try(read_u8(s, rd), LAMBDA id1 :
    Try(read_u8(s, id1.rd), LAMBDA id2 :
      IF id1.val # 31 \/ id2.val # 139 THEN Err("InvalidData", id2.rd)
      ELSE
    Try(read_u8(s, id2.rd), LAMBDA cm :
      IF cm.val # 8 THEN Err("InvalidData", cm.rd)
      ELSE
    Try(read_u8(s, cm.rd), LAMBDA flg :
    Try(read_u32(s, flg.rd), LAMBDA mtime :
    Try(read_u8(s, mtime.rd), LAMBDA xfl :
    Try(read_u8(s, xfl.rd), LAMBDA os :
    Try(IF FlagBit(flg.val, 2) THEN read_fextra(s, os.rd) ELSE os, LAMBDA extra :
    Try(IF FlagBit(flg.val, 3) THEN read_cstring(s, extra.rd) ELSE extra, LAMBDA file_name :
    Try(IF FlagBit(flg.val, 4) THEN read_cstring(s, file_name.rd) ELSE file_name, LAMBDA comment :
    Try(IF FlagBit(flg.val, 1) THEN BitReader_read_exact(s, comment.rd, 2) ELSE comment,
        LAMBDA crc16_buf :
      [ok |-> TRUE, rd |-> crc16_buf.rd, state |-> BlockHeader]))))))))))))

\* read_member_trailer of a decoder that takes the input to be over when a
\* member is
read_member_trailer_last(s, rd) ==
    Try(read_u32(s, drop_remaining_bits(rd)), LAMBDA crc32 :
    Try(read_u32(s, crc32.rd), LAMBDA isize :
      [ok |-> TRUE, rd |-> isize.rd, state |-> EndOfFile]))

read_member_trailer(s, rd) ==
    Try(read_u32(s, drop_remaining_bits(rd)), LAMBDA crc32 :
    Try(read_u32(s, crc32.rd), LAMBDA isize :
      [ok |-> TRUE, rd |-> isize.rd, state |-> MemberHeader]))

\* read_no_compression_block_header without its drop_remaining_bits
read_no_compression_block_header_undropped(s, rd, is_final) ==
    Try(read_u16(s, rd), LAMBDA len :
    Try(read_u16(s, len.rd), LAMBDA nlen :
      IF 65535 - len.val # nlen.val THEN Err("InvalidData", nlen.rd)
      ELSE [ok |-> TRUE, rd |-> nlen.rd,
            state |-> NoCompressionBlock(len.val, is_final)]))

read_no_compression_block_header(s, rd, is_final) ==
    Try(read_u16(s, drop_remaining_bits(rd)), LAMBDA len :
    Try(read_u16(s, len.rd), LAMBDA nlen :
      IF 65535 - len.val # nlen.val THEN Err("InvalidData", nlen.rd)
      ELSE [ok |-> TRUE, rd |-> nlen.rd,
            state |-> NoCompressionBlock(len.val, is_final)]))

\* read_no_compression_block with the two arms of `if is_final` exchanged
read_no_compression_block_swapped(s, rd, lb, buf_len, block_len, is_final) ==
    Try(BitReader_read(s, rd, Min(block_len, buf_len)), LAMBDA r :
    TryAt(write_data(lb, r.val), r.rd, LAMBDA w :
      [ok    |-> TRUE,
       rd    |-> r.rd,
       lb    |-> w.lb,
       state |-> IF block_len - Len(r.val) = 0
                 THEN (IF is_final THEN BlockHeader ELSE MemberTrailer)
                 ELSE NoCompressionBlock(block_len - Len(r.val), is_final),
       bytes |-> r.val]))

\* buf_len is buf.len(); bytes is what the handler wrote to the front of buf
read_no_compression_block(s, rd, lb, buf_len, block_len, is_final) ==
    Try(BitReader_read(s, rd, Min(block_len, buf_len)), LAMBDA r :
    TryAt(write_data(lb, r.val), r.rd, LAMBDA w :
      [ok    |-> TRUE,
       rd    |-> r.rd,
       lb    |-> w.lb,
       state |-> IF block_len - Len(r.val) = 0
                 THEN (IF is_final THEN MemberTrailer ELSE BlockHeader)
                 ELSE NoCompressionBlock(block_len - Len(r.val), is_final),
       bytes |-> r.val]))

\* todo!()
read_fixed_huffman_block_header(s, rd) == Err("panic", rd)

\* See RFC 3.2.7
clen_order == <<16, 17, 18, 0, 8, 7, 9, 6, 10, 5, 11, 4, 12, 3, 13, 2, 14, 1, 15>>

\* the loop `for i in 0..ncode`; clen_lengths[k + 1] is the source's
\* clen_lengths[k]
RECURSIVE read_clen_lengths(_, _, _, _, _)
read_clen_lengths(s, rd, ncode, i, clen_lengths) ==
    IF i >= ncode THEN [ok |-> TRUE, rd |-> rd, val |-> clen_lengths]
    ELSE Try(read_bits_exact(s, rd, 3), LAMBDA r :
           read_clen_lengths(s, r.rd, ncode, i + 1,
                             [clen_lengths EXCEPT ![clen_order[i + 1] + 1] = r.val]))

\* the `code repeats` branch: the extra bits of the length code clc
RepeatBits(clc) == CASE clc = 16 -> 2 [] clc = 17 -> 3 [] clc = 18 -> 7

\* ... and what is added to them
RepeatBase(clc) == CASE clc = 16 -> 3 [] clc = 17 -> 3 [] clc = 18 -> 11

\* the loop `while next_length_i < nlit + ndist`.  all_lengths holds the
\* entries assigned so far, so next_length_i is its length; an assignment at
\* an index >= nlit + ndist is out of the vector's bounds.
RECURSIVE read_all_lengths(_, _, _, _, _, _)
read_all_lengths(s, rd, lengths_tree, total, all_lengths, previous_length) ==
    IF Len(all_lengths) >= total THEN [ok |-> TRUE, rd |-> rd, val |-> all_lengths]
    ELSE
      Try(decode(lengths_tree, s, rd), LAMBDA clc :
        IF clc.val = <<>> THEN Err("InvalidData", clc.rd)
        ELSE IF clc.val[1] <= 15
        THEN read_all_lengths(s, clc.rd, lengths_tree, total,
                              Append(all_lengths, clc.val[1]), clc.val[1])
        ELSE IF clc.val[1] > 18 THEN Err("InvalidData", clc.rd)
        ELSE
      Try(read_bits_exact(s, clc.rd, RepeatBits(clc.val[1])), LAMBDA x :
      With(x.val + RepeatBase(clc.val[1]), LAMBDA repeat_count :
      With(IF clc.val[1] = 16 THEN previous_length ELSE 0, LAMBDA repeat_length :
        IF Len(all_lengths) + repeat_count > total THEN Err("panic", x.rd)
        ELSE read_all_lengths(s, x.rd, lengths_tree, total,
                              all_lengths \o [k \in 1..repeat_count |-> repeat_length],
                              repeat_length)))))

read_dynamic_huffman_block_header(s, rd, is_final) ==
    Try(read_bits_exact(s, rd, 5), LAMBDA hlit :
    Try(read_bits_exact(s, hlit.rd, 5), LAMBDA hdist :
    Try(read_bits_exact(s, hdist.rd, 4), LAMBDA hclen :
    With(hlit.val + 257, LAMBDA nlit :
    With(hdist.val + 1, LAMBDA ndist :
    With(hclen.val + 4, LAMBDA ncode :
    Try(read_clen_lengths(s, hclen.rd, ncode, 0, [k \in 1..19 |-> 0]), LAMBDA clen_lengths :
    TryAt(new_from_lengths(clen_lengths.val), clen_lengths.rd, LAMBDA lengths_tree :
    Try(read_all_lengths(s, clen_lengths.rd, lengths_tree.tree, nlit + ndist, <<>>, 0),
        LAMBDA all_lengths :
    TryAt(new_from_lengths(SubSeq(all_lengths.val, 1, nlit)), all_lengths.rd,
          LAMBDA litlen_tree :
    TryAt(new_from_lengths(SubSeq(all_lengths.val, nlit + 1, nlit + ndist)), all_lengths.rd,
          LAMBDA distance_tree :
      [ok |-> TRUE, rd |-> all_lengths.rd,
       state |-> HuffmanBlock(litlen_tree.tree, distance_tree.tree, is_final)])))))))))))

\* size base for length codes 257..285
length_offsets ==
    <<3, 4, 5, 6, 7, 8, 9, 10, 11, 13, 15, 17, 19, 23, 27, 31, 35, 43, 51, 59, 67, 83, 99,
      115, 131, 163, 195, 227, 258>>

\* extra bits for length codes 257..285
length_extra_bits ==
    <<0, 0, 0, 0, 0, 0, 0, 0, 1, 1, 1, 1, 2, 2, 2, 2, 3, 3, 3, 3, 4, 4, 4, 4, 5, 5, 5, 5, 0>>

\* offset base for distance codes 0..29
distance_offsets ==
    <<1, 2, 3, 4, 5, 7, 9, 13, 17, 25, 33, 49, 65, 97, 129, 193, 257, 385, 513, 769, 1025,
      1537, 2049, 3073, 4097, 6145, 8193, 12289, 16385, 24577>>

\* extra bits for distance codes 0..29
distance_extra_bits ==
    <<0, 0, 0, 0, 1, 1, 2, 2, 3, 3, 4, 4, 5, 5, 6, 6, 7, 7, 8, 8, 9, 9, 10, 10, 11, 11, 12,
      12, 13, 13>>

\* the `found a match` branch of read_huffman_block, for 257 <= litlen <= 285.
\* A dist_code that is no index of distance_extra_bits panics.
\* read_match without the base of the length code: the extra bits alone
read_match_no_base(s, rd, litlen, litlen_tree, distance_tree, is_final) ==
    Try(read_bits_exact(s, rd, length_extra_bits[litlen - 257 + 1]), LAMBDA lextra :
    With(lextra.val, LAMBDA match_length :
    Try(decode(distance_tree, s, lextra.rd), LAMBDA dist_code :
      IF dist_code.val = <<>> THEN Err("InvalidData", dist_code.rd)
      ELSE IF dist_code.val[1] >= Len(distance_extra_bits) THEN Err("panic", dist_code.rd)
      ELSE
    Try(read_bits_exact(s, dist_code.rd, distance_extra_bits[dist_code.val[1] + 1]),
        LAMBDA dextra :
    With(dextra.val + distance_offsets[dist_code.val[1] + 1], LAMBDA match_distance :
      [ok |-> TRUE, rd |-> dextra.rd,
       state |-> HuffmanBlockMatch(litlen_tree, distance_tree,
                                   match_length, match_distance, is_final)])))))

read_match(s, rd, litlen, litlen_tree, distance_tree, is_final) ==
    Try(read_bits_exact(s, rd, length_extra_bits[litlen - 257 + 1]), LAMBDA lextra :
    With(lextra.val + length_offsets[litlen - 257 + 1], LAMBDA match_length :
    Try(decode(distance_tree, s, lextra.rd), LAMBDA dist_code :
      IF dist_code.val = <<>> THEN Err("InvalidData", dist_code.rd)
      ELSE IF dist_code.val[1] >= Len(distance_extra_bits) THEN Err("panic", dist_code.rd)
      ELSE
    Try(read_bits_exact(s, dist_code.rd, distance_extra_bits[dist_code.val[1] + 1]),
        LAMBDA dextra :
    With(dextra.val + distance_offsets[dist_code.val[1] + 1], LAMBDA match_distance :
      [ok |-> TRUE, rd |-> dextra.rd,
       state |-> HuffmanBlockMatch(litlen_tree, distance_tree,
                                   match_length, match_distance, is_final)])))))

\* the decode loop of read_huffman_block; bytes is buf[..pos]
RECURSIVE read_huffman_block_loop(_, _, _, _, _, _, _, _)
read_huffman_block_loop(s, rd, lb, buf_len, litlen_tree, distance_tree, is_final, bytes) ==
    IF Len(bytes) >= buf_len
    THEN \* we filled the entire buffer
         [ok |-> TRUE, rd |-> rd, lb |-> lb, bytes |-> bytes,
          state |-> HuffmanBlock(litlen_tree, distance_tree, is_final)]
    ELSE
      TryLb(decode(litlen_tree, s, rd), lb, LAMBDA litlen :
        IF litlen.val = <<>> THEN ErrLb("InvalidData", litlen.rd, lb)
        ELSE IF litlen.val[1] < 256
        THEN \* add to buffer and to lookback
             read_huffman_block_loop(s, litlen.rd, write_byte(lb, litlen.val[1]).lb,
                                     buf_len, litlen_tree, distance_tree, is_final,
                                     Append(bytes, litlen.val[1]))
        ELSE IF litlen.val[1] = 256
        THEN \* end of block
             [ok |-> TRUE, rd |-> litlen.rd, lb |-> lb, bytes |-> bytes,
              state |-> IF is_final THEN MemberTrailer ELSE BlockHeader]
        ELSE IF litlen.val[1] <= 285
        THEN \* found a match
             TryLb(read_match(s, litlen.rd, litlen.val[1], litlen_tree, distance_tree,
                              is_final),
                   lb, LAMBDA m :
               [ok |-> TRUE, rd |-> m.rd, lb |-> lb, bytes |-> bytes, state |-> m.state])
        ELSE \* no branch of the if chain: the loop goes on
             read_huffman_block_loop(s, litlen.rd, lb, buf_len,
                                     litlen_tree, distance_tree, is_final, bytes))

read_huffman_block(s, rd, lb, buf_len, litlen_tree, distance_tree, is_final) ==
    read_huffman_block_loop(s, rd, lb, buf_len, litlen_tree, distance_tree, is_final, <<>>)

\* read_huffman_block_match without its write to the lookback buffer
read_huffman_block_match_unwritten(rd, lb, buf_len, litlen_tree, distance_tree, length, distance, is_final) ==
    With(Min(LOOKBACK_WINDOW_SIZE, Min(buf_len, Min(length, distance))), LAMBDA read_length :
    TryAt(read_lookback_exact(lb, read_length, distance), rd, LAMBDA r :
      [ok    |-> TRUE,
       rd    |-> rd,
       lb    |-> lb,
       state |-> IF read_length = length
                 THEN HuffmanBlock(litlen_tree, distance_tree, is_final)
                 ELSE HuffmanBlockMatch(litlen_tree, distance_tree,
                                        length - read_length, distance, is_final),
       bytes |-> r.val]))

read_huffman_block_match(rd, lb, buf_len, litlen_tree, distance_tree, length, distance, is_final) ==
    With(Min(LOOKBACK_WINDOW_SIZE, Min(buf_len, Min(length, distance))), LAMBDA read_length :
    TryAt(read_lookback_exact(lb, read_length, distance), rd, LAMBDA r :
    TryAt(write_data(lb, r.val), rd, LAMBDA w :
      [ok    |-> TRUE,
       rd    |-> rd,
       lb    |-> w.lb,
       state |-> IF read_length = length
                 THEN HuffmanBlock(litlen_tree, distance_tree, is_final)
                 ELSE HuffmanBlockMatch(litlen_tree, distance_tree,
                                        length - read_length, distance, is_final),
       bytes |-> r.val])))

NO_COMPRESSION  == 0
FIXED_HUFFMAN   == 1
DYNAMIC_HUFFMAN == 2

\* read_block_header without the arm for the reserved BTYPE, which goes
\* the way of DYNAMIC_HUFFMAN
read_block_header_no_reserved(s, rd) ==
    Try(read_bits_exact(s, rd, 1), LAMBDA bfinal :
    Try(read_bits_exact(s, bfinal.rd, 2), LAMBDA btype :
      CASE btype.val = NO_COMPRESSION ->
             read_no_compression_block_header(s, btype.rd, bfinal.val = 1)
        [] btype.val = FIXED_HUFFMAN ->
             read_fixed_huffman_block_header(s, btype.rd)
        [] OTHER ->
             read_dynamic_huffman_block_header(s, btype.rd, bfinal.val = 1)))

read_block_header(s, rd) ==
    Try(read_bits_exact(s, rd, 1), LAMBDA bfinal :
    Try(read_bits_exact(s, bfinal.rd, 2), LAMBDA btype :
      CASE btype.val = NO_COMPRESSION ->
             read_no_compression_block_header(s, btype.rd, bfinal.val = 1)
        [] btype.val = FIXED_HUFFMAN ->
             read_fixed_huffman_block_header(s, btype.rd)
        [] btype.val = DYNAMIC_HUFFMAN ->
             read_dynamic_huffman_block_header(s, btype.rd, bfinal.val = 1)
        [] OTHER -> Err("InvalidData", btype.rd)))

(***************************************************************************)
(* The decoder as a state machine.                                         *)
(*   src       the byte source handed to RZLibReader::new                  *)
(*   rd        RZLibReader.reader                                          *)
(*   lookback  RZLibReader.lookback                                        *)
(*   state     RZLibReader.state                                           *)
(*   total_bytes_read  RZLibReader.total_bytes_read                        *)
(*   call      the read call in progress: pc is "idle" between calls,      *)
(*             "running" inside read_impl's loop, "panicked" after a       *)
(*             panic; buf_len is dst.len(); spin says that the last        *)
(*             iteration of the loop changed nothing; entry is the         *)
(*             decoder as the call found it                                *)
(*   out       the bytes the successful reads returned so far, in order    *)
(*   result    what the last finished call returned                        *)
(*   unit      a part of the program exercised on its own, and what it     *)
(*             was given and gave back (see the specifications below);     *)
(*             NoUnit while the decoder runs                               *)
(***************************************************************************)
VARIABLES src, rd, lookback, state, total_bytes_read, call, out, result, unit

vars == <<src, rd, lookback, state, total_bytes_read, call, out, result, unit>>

\* no part of the program is exercised on its own
NoUnit == [kind |-> "none"]

\* RZLibReader::new
Init ==
    /\ src \in Sources
    /\ rd = BitReader_new
    /\ lookback = LookbackBuffer_new(LOOKBACK_WINDOW_SIZE)
    /\ state = MemberHeader
    /\ total_bytes_read = 0
    /\ call = [pc |-> "idle", buf_len |-> 0, spin |-> FALSE,
               entry |-> [state |-> MemberHeader, rd |-> BitReader_new,
                          lookback |-> LookbackBuffer_new(LOOKBACK_WINDOW_SIZE),
                          out_len |-> 0]]
    /\ out = <<>>
    /\ result = [kind |-> "None"]
    /\ unit = NoUnit

\* read(dst) is called with |dst| = n: read_impl is entered
Read(n) ==
    /\ call.pc = "idle"
    /\ call' = [pc |-> "running", buf_len |-> n, spin |-> FALSE,
                entry |-> [state |-> state, rd |-> rd, lookback |-> lookback,
                           out_len |-> Len(out)]]
    /\ UNCHANGED <<src, rd, lookback, state, total_bytes_read, out, result, unit>>

\* an iteration of read_impl's loop that puts the state back when the
\* handler fails
Iteration_restoring(h) ==
    IF ~h.ok
    THEN /\ rd' = h.rd
         /\ lookback' = IF "lb" \in DOMAIN h THEN h.lb ELSE lookback
         /\ UNCHANGED <<src, state, total_bytes_read, out, unit>>
         /\ IF h.err = "panic"
            THEN /\ call' = [call EXCEPT !.pc = "panicked"]
                 /\ result' = [kind |-> "Panic"]
            ELSE /\ call' = [call EXCEPT !.pc = "idle"]
                 /\ result' = [kind |-> "Err", err |-> h.err]
    ELSE LET bytes == IF "bytes" \in DOMAIN h THEN h.bytes ELSE <<>>
             total_read == Len(bytes)
         IN  /\ state' = h.state
             /\ rd' = h.rd
             /\ lookback' = IF "lb" \in DOMAIN h THEN h.lb ELSE lookback
             /\ UNCHANGED <<src, unit>>
             /\ IF total_read = 0
                THEN /\ call' = [call EXCEPT !.spin = (h.state = state /\ h.rd = rd)]
                     /\ UNCHANGED <<total_bytes_read, out, result>>
                ELSE /\ call' = [call EXCEPT !.pc = "idle"]
                     /\ out' = out \o bytes
                     /\ total_bytes_read' = total_bytes_read + total_read
                     /\ result' = [kind |-> "Ok", n |-> total_read]

\* what one iteration of read_impl's loop does with the outcome h of the
\* handler it dispatched to.  mem::swap has left BrokenStream in self.state;
\* a handler that succeeds puts the next state there.  read adds what
\* read_impl returns to total_bytes_read.
Iteration(h) ==
    IF ~h.ok
    THEN /\ state' = BrokenStream
         /\ rd' = h.rd
         /\ lookback' = IF "lb" \in DOMAIN h THEN h.lb ELSE lookback
         /\ UNCHANGED <<src, total_bytes_read, out, unit>>
         /\ IF h.err = "panic"
            THEN /\ call' = [call EXCEPT !.pc = "panicked"]
                 /\ result' = [kind |-> "Panic"]
            ELSE /\ call' = [call EXCEPT !.pc = "idle"]
                 /\ result' = [kind |-> "Err", err |-> h.err]
    ELSE LET bytes == IF "bytes" \in DOMAIN h THEN h.bytes ELSE <<>>
             total_read == Len(bytes)
         IN  /\ state' = h.state
             /\ rd' = h.rd
             /\ lookback' = IF "lb" \in DOMAIN h THEN h.lb ELSE lookback
             /\ UNCHANGED <<src, unit>>
             /\ IF total_read = 0
                THEN /\ call' = [call EXCEPT !.spin = (h.state = state /\ h.rd = rd)]
                     /\ UNCHANGED <<total_bytes_read, out, result>>
                ELSE /\ call' = [call EXCEPT !.pc = "idle"]
                     /\ out' = out \o bytes
                     /\ total_bytes_read' = total_bytes_read + total_read
                     /\ result' = [kind |-> "Ok", n |-> total_read]

StepBrokenStream ==
    /\ call.pc = "running"
    /\ state.tag = "BrokenStream"
    /\ Iteration(Err("InvalidInput", rd))

StepMemberHeader ==
    /\ call.pc = "running"
    /\ state.tag = "MemberHeader"
    /\ Iteration(read_member_header(src, rd))

StepMemberTrailer ==
    /\ call.pc = "running"
    /\ state.tag = "MemberTrailer"
    /\ Iteration(read_member_trailer(src, rd))

StepBlockHeader ==
    /\ call.pc = "running"
    /\ state.tag = "BlockHeader"
    /\ Iteration(read_block_header(src, rd))

StepNoCompressionBlock ==
    /\ call.pc = "running"
    /\ state.tag = "NoCompressionBlock"
    /\ Iteration(read_no_compression_block(src, rd, lookback, call.buf_len,
                                           state.len, state.is_final))

StepHuffmanBlock ==
    /\ call.pc = "running"
    /\ state.tag = "HuffmanBlock"
    /\ Iteration(read_huffman_block(src, rd, lookback, call.buf_len,
                                    state.litlen_tree, state.distance_tree,
                                    state.is_final))

StepHuffmanBlockMatch ==
    /\ call.pc = "running"
    /\ state.tag = "HuffmanBlockMatch"
    /\ Iteration(read_huffman_block_match(rd, lookback, call.buf_len,
                                          state.litlen_tree, state.distance_tree,
                                          state.length, state.distance,
                                          state.is_final))

\* the EndOfFile arm without its `self.state = EndOfFile`: what mem::swap
\* put there stays
StepEndOfFile_unrestored ==
    /\ call.pc = "running"
    /\ state.tag = "EndOfFile"
    /\ state' = BrokenStream
    /\ call' = [call EXCEPT !.pc = "idle"]
    /\ result' = [kind |-> "Ok", n |-> 0]
    /\ UNCHANGED <<src, rd, lookback, total_bytes_read, out, unit>>

StepEndOfFile ==
    /\ call.pc = "running"
    /\ state.tag = "EndOfFile"
    /\ call' = [call EXCEPT !.pc = "idle"]
    /\ result' = [kind |-> "Ok", n |-> 0]
    /\ UNCHANGED <<src, rd, lookback, state, total_bytes_read, out, unit>>

Next ==
    \/ \E n \in DstSizes(src) : Read(n)
    \/ StepBrokenStream
    \/ StepMemberHeader
    \/ StepMemberTrailer
    \/ StepBlockHeader
    \/ StepNoCompressionBlock
    \/ StepHuffmanBlock
    \/ StepHuffmanBlockMatch
    \/ StepEndOfFile

Spec == Init /\ [][Next]_vars

(***************************************************************************)
(* What the inputs stand for.  These are facts about the byte strings of   *)
(* the catalogue (RFC 1952 / RFC 1951), not about the decoder.             *)
(***************************************************************************)
\* the source holds the whole input
Complete == src.len = Len(Inputs[src.id])

\* the payload a gzip decoder yields for the whole input
Payload(input) ==
    CASE input = EmptyFixed -> <<>>
      [] input = StoredAbc  -> <<97, 98, 99>>
      [] input = TwoStoredA -> <<65, 65>>
      [] input = TwoFixedA  -> <<65, 65>>
      [] input = DynRepeat  -> <<97, 97, 97, 97, 97, 97, 97, 97, 97, 97, 97>>
      [] input = MultiBlock -> <<104, 105, 120, 104, 105, 120>>
      [] input = FullHeader -> <<90>>
      [] input = BigStored  -> [i \in 1..BigStoredLen |-> i % 251]
      [] input = DynThenStored -> <<97, 98>>
      [] input = FarMatch   -> [i \in 1..(LOOKBACK_WINDOW_SIZE + 258) |->
                                  (((i - 1) % LOOKBACK_WINDOW_SIZE) + 1) % 251]

\* the well-formed inputs whose blocks are stored or dynamic-Huffman blocks
StoredOrDynamic ==
    {StoredAbc, TwoStoredA, DynRepeat, MultiBlock, FullHeader, BigStored, DynThenStored,
     FarMatch}

\* the well-formed inputs whose blocks are fixed-Huffman blocks
FixedOnly == {EmptyFixed, TwoFixedA}

\* the lengths of the input's prefixes that end where a member header may
\* start: 0, and the end of every whole member
MemberEnds(input) ==
    CASE input = EmptyFixed -> {0, 20}
      [] input = StoredAbc  -> {0, 26}
      [] input = TwoStoredA -> {0, 24, 48}
      [] input = TwoFixedA  -> {0, 21, 42}
      [] input = DynRepeat  -> {0, 33}
      [] input = MultiBlock -> {0, 44}
      [] input = FullHeader -> {0, 34}
      [] input = BigStored  -> {0, Len(BigStored)}
      [] input = DynThenStored -> {0, 36}
      [] input = Repeat16First -> {0, 32}
      [] input = FarMatch   -> {0, Len(FarMatch)}
      [] input = Litlen286  -> {0, 34}
      [] input = MatchTooFar -> {0, 33}
      [] OTHER -> {0}

\* out is a prefix of the sequence bytes
IsPrefix(bytes) == Len(out) <= Len(bytes) /\ out = SubSeq(bytes, 1, Len(out))

\* a read call has returned
Returned == call.pc = "idle" /\ result.kind # "None"

\* the loop of read_impl is about to dispatch to read_block_header, and the
\* three bits the header starts with lie in one byte
HeaderAhead ==
    /\ call.pc = "running"
    /\ state.tag = "BlockHeader"
    /\ IF rd.bits_count = 0 THEN rd.pos < src.len ELSE rd.bits_count >= 3

\* BTYPE of that header: bits 1 and 2 of the three
BtypeAhead ==
    ((IF rd.bits_count = 0 THEN SrcByte(src, rd.pos + 1) ELSE rd.bits) \div 2) % 4

(***************************************************************************)
(* C1.  A well-formed input of stored and dynamic-Huffman blocks decodes   *)
(* to the same bytes whatever the sizes of dst: no read fails, what the    *)
(* reads returned so far is a prefix of the payload, and it is the whole   *)
(* payload once a read has returned 0.                                     *)
(***************************************************************************)
C1_ChunkingIndependent ==
    (Inputs[src.id] \in StoredOrDynamic /\ Complete) =>
        /\ result.kind \notin {"Err", "Panic"}
        /\ IsPrefix(Payload(Inputs[src.id]))
        /\ (state.tag = "EndOfFile" => out = Payload(Inputs[src.id]))

(***************************************************************************)
(* C2.  A read that succeeds returns 0 exactly when it leaves the decoder  *)
(* in EndOfFile, and otherwise between 1 and dst.len() bytes; EndOfFile    *)
(* is entered only with the source exhausted, no bits buffered, at the     *)
(* end of a whole member (or of an empty source).                          *)
(***************************************************************************)
C2_ZeroIffEndOfFile ==
    /\ (call.pc = "idle" /\ result.kind = "Ok") =>
          /\ (result.n = 0 <=> state.tag = "EndOfFile")
          /\ result.n <= call.buf_len
          /\ result.n = Len(out) - call.entry.out_len
    /\ state.tag = "EndOfFile" =>
          /\ rd.pos = src.len
          /\ rd.bits_count = 0
          /\ src.len \in MemberEnds(Inputs[src.id])

\* a read has returned 0 after two members were decoded
C2_Witness ==
    /\ call.pc = "idle"
    /\ result = [kind |-> "Ok", n |-> 0]
    /\ state.tag = "EndOfFile"
    /\ Inputs[src.id] = TwoStoredA
    /\ Len(out) = 2

(***************************************************************************)
(* C3.  A read that returns an error leaves the decoder in BrokenStream;   *)
(* a read of a decoder in BrokenStream returns InvalidInput and changes    *)
(* neither the reader, the lookback buffer, the output nor the state.      *)
(***************************************************************************)
C3_ErrorPoisons ==
    /\ (call.pc = "idle" /\ result.kind = "Err") => state.tag = "BrokenStream"
    /\ (Returned /\ call.entry.state.tag = "BrokenStream") =>
          /\ result = [kind |-> "Err", err |-> "InvalidInput"]
          /\ state.tag = "BrokenStream"
          /\ rd = call.entry.rd
          /\ lookback = call.entry.lookback
          /\ Len(out) = call.entry.out_len

\* a read of a decoder that an InvalidData error of a Huffman block had
\* poisoned, after a byte of output, has returned
C3_Witness ==
    /\ Returned
    /\ call.entry.state.tag = "BrokenStream"
    /\ result = [kind |-> "Err", err |-> "InvalidInput"]
    /\ Inputs[src.id] = Undecodable
    /\ Complete
    /\ Len(out) = 1

(***************************************************************************)
(* C4.  A source that ends anywhere but at the end of a whole member makes *)
(* the read that meets the end return UnexpectedEof: the decoder never     *)
(* gets to EndOfFile, no read goes round its loop without end, and the     *)
(* one error a read of the unpoisoned decoder returns is UnexpectedEof.    *)
(* (Stated for the prefixes of the inputs of stored and dynamic blocks,    *)
(* where nothing else is wrong with the input.)                            *)
(***************************************************************************)
C4_TruncatedIsUnexpectedEof ==
    (Inputs[src.id] \in StoredOrDynamic /\ src.len \notin MemberEnds(Inputs[src.id])) =>
        /\ state.tag # "EndOfFile"
        /\ ~call.spin
        /\ (call.pc = "idle" /\ result.kind = "Err"
              /\ call.entry.state.tag # "BrokenStream") => result.err = "UnexpectedEof"

(***************************************************************************)
(* C5.  Every read call ends after finitely many iterations of its loop.   *)
(* The loop is deterministic, so an iteration that returns nothing and     *)
(* leaves the decoder and the reader as it found them is followed by the   *)
(* same iteration for ever: no iteration is such.                          *)
(***************************************************************************)
C5_NoSpin == ~(call.pc = "running" /\ call.spin)

(***************************************************************************)
(* C6.  An input of k >= 1 well-formed members decodes to the payloads of  *)
(* the members in order: no read fails, the output is a prefix of the      *)
(* payloads' concatenation, EndOfFile comes only at the end of the last    *)
(* member with all of it returned, and a member's trailer is followed by   *)
(* MemberHeader.                                                           *)
(***************************************************************************)
C6_MembersConcatenate ==
    (Inputs[src.id] \in (StoredOrDynamic \cup FixedOnly) \ {BigStored} /\ Complete) =>
        /\ result.kind \notin {"Err", "Panic"}
        /\ IsPrefix(Payload(Inputs[src.id]))
        /\ (state.tag = "EndOfFile" =>
              out = Payload(Inputs[src.id]) /\ rd.pos = src.len)
        /\ (state.tag = "MemberHeader" => rd.pos \in MemberEnds(Inputs[src.id]))

(***************************************************************************)
(* C7.  The bytes a match (length, distance) puts out are those `distance` *)
(* before them in the output, whatever the sizes of dst.  Every iteration  *)
(* in HuffmanBlockMatch, with at least `distance` bytes put out before,    *)
(* returns k = min(dst.len(), length, distance) bytes, each equal to the   *)
(* byte `distance` before it, and goes on with the same distance and the   *)
(* length less k, or back to HuffmanBlock when the match is done.          *)
(***************************************************************************)
C7_MatchCopiesFromDistance ==
    [][(call.pc = "running" /\ state.tag = "HuffmanBlockMatch"
          /\ state.distance <= Len(out)) =>
         LET k == Min(call.buf_len, Min(state.length, state.distance))
         IN  /\ Len(out') = Len(out) + k
             /\ SubSeq(out', 1, Len(out)) = out
             /\ \A i \in 1..k : out'[Len(out) + i] = out'[Len(out) + i - state.distance]
             /\ result' = [kind |-> "Ok", n |-> k]
             /\ IF k = state.length
                THEN state' = HuffmanBlock(state.litlen_tree, state.distance_tree,
                                           state.is_final)
                ELSE state' = [state EXCEPT !.length = @ - k]]_vars

\* the match (length 10, distance 1) after the literal 'a' has been put out
\* whole, and the block is over
C7_Witness ==
    /\ Inputs[src.id] = DynRepeat
    /\ Complete
    /\ state.tag = "MemberTrailer"
    /\ Len(out) = 11
    /\ \A i \in 2..11 : out[i] = out[i - 1]

(***************************************************************************)
(* C8.  A block header with BTYPE = 1 makes the read return the error      *)
(* InvalidData, and leaves the decoder in BrokenStream.                    *)
(***************************************************************************)
C8_FixedIsInvalidData ==
    [][(HeaderAhead /\ BtypeAhead = FIXED_HUFFMAN) =>
         /\ call'.pc = "idle"
         /\ result' = [kind |-> "Err", err |-> "InvalidData"]
         /\ state'.tag = "BrokenStream"]_vars

(***************************************************************************)
(* C9.  The 20-byte gzip of the empty string decodes to nothing, without   *)
(* an error: no read fails or returns bytes, and a read that has returned  *)
(* has returned 0 and left the decoder in EndOfFile.                       *)
(***************************************************************************)
C9_EmptyGzipDecodes ==
    (Inputs[src.id] = EmptyFixed /\ Complete) =>
        /\ result.kind \notin {"Err", "Panic"}
        /\ out = <<>>
        /\ Returned => (result = [kind |-> "Ok", n |-> 0] /\ state.tag = "EndOfFile")

(***************************************************************************)
(* C10.  A block header with BTYPE = 3 makes the read return InvalidData   *)
(* with the three bits of the header taken and nothing more: when the      *)
(* header starts a byte, that byte has been fetched and its other five     *)
(* bits are buffered.  The read after that returns InvalidInput.           *)
(***************************************************************************)
C10_Btype3ConsumesHeaderOnly ==
    [][/\ (HeaderAhead /\ BtypeAhead = 3) =>
            /\ call'.pc = "idle"
            /\ result' = [kind |-> "Err", err |-> "InvalidData"]
            /\ state'.tag = "BrokenStream"
            /\ out' = out
            /\ IF rd.bits_count = 0
               THEN rd' = [pos |-> rd.pos + 1,
                           bits |-> SrcByte(src, rd.pos + 1) \div 8,
                           bits_count |-> 5]
               ELSE rd' = [pos |-> rd.pos,
                           bits |-> rd.bits \div 8,
                           bits_count |-> rd.bits_count - 3]
       /\ (call.pc = "running" /\ state.tag = "BrokenStream") =>
            /\ result' = [kind |-> "Err", err |-> "InvalidInput"]
            /\ rd' = rd]_vars

\* the read after the one that met BTYPE = 3 has returned InvalidInput: of
\* the source, the ten bytes of the member header and one more were taken
C10_Witness ==
    /\ Inputs[src.id] = Btype3
    /\ Complete
    /\ Returned
    /\ call.entry.state.tag = "BrokenStream"
    /\ result = [kind |-> "Err", err |-> "InvalidInput"]
    /\ rd = [pos |-> 11, bits |-> 0, bits_count |-> 5]

(***************************************************************************)
(* C11.  EndOfFile is terminal: from EndOfFile on, the state stays         *)
(* EndOfFile, the reader and the lookback buffer are left alone, nothing   *)
(* is put out, and every read returns Ok(0).                               *)
(***************************************************************************)
C11_EndOfFileIsTerminal ==
    [][state.tag = "EndOfFile" =>
         /\ state' = state
         /\ rd' = rd
         /\ lookback' = lookback
         /\ out' = out
         /\ total_bytes_read' = total_bytes_read
         /\ (call.pc = "running" =>
               call'.pc = "idle" /\ result' = [kind |-> "Ok", n |-> 0])]_vars

\* a read that found the decoder in EndOfFile, after the whole of MultiBlock
\* was put out, has returned 0
C11_Witness ==
    /\ Returned
    /\ call.entry.state.tag = "EndOfFile"
    /\ state.tag = "EndOfFile"
    /\ result = [kind |-> "Ok", n |-> 0]
    /\ Inputs[src.id] = MultiBlock
    /\ Len(out) = 6

(***************************************************************************)
(* HuffmanTree on its own, the way huffman.rs's tests use it: a tree is    *)
(* built from a vector of code lengths, and Codewords are decoded against  *)
(* it.  unit is                                                            *)
(*   [kind |-> "tree", lengths, built, tree, word, decoded, rest]          *)
(* with word the Codeword handed to decode, decoded what decode returned   *)
(* (<<>> for None, <<v>> for Some(v)) and rest the Codeword afterwards.    *)
(***************************************************************************)
\* the decoder, which these specifications leave as new() made it
decoder == <<src, rd, lookback, state, total_bytes_read, call, out, result>>

DecoderAtRest ==
    /\ src = [id |-> 1, len |-> 0]
    /\ rd = BitReader_new
    /\ lookback = LookbackBuffer_new(LOOKBACK_WINDOW_SIZE)
    /\ state = MemberHeader
    /\ total_bytes_read = 0
    /\ call = [pc |-> "idle", buf_len |-> 0, spin |-> FALSE,
               entry |-> [state |-> MemberHeader, rd |-> BitReader_new,
                          lookback |-> LookbackBuffer_new(LOOKBACK_WINDOW_SIZE),
                          out_len |-> 0]]
    /\ out = <<>>
    /\ result = [kind |-> "None"]

\* the vectors of code lengths tried have 1..MaxSyms entries in 0..MaxLen
MaxSyms == 3

MaxLen == 3

\* the Codewords decoded have 1..MaxWordLen bits
MaxWordLen == 5

\* the vectors of huffman.rs's tests
RfcLengths1 == <<2, 1, 3, 3>>

RfcLengths2 == <<3, 3, 3, 3, 3, 2, 4, 4>>

\* a vector with zero entries and with codes of the greatest length
LongLengths == <<15, 0, 1, 15, 0, 14>>

\* RFC 1951, 3.2.2: the code of symbol sym (sym = 0 for the first entry of
\* lengths), a number of lengths[sym + 1] bits.  Codes of one length are
\* consecutive, in the order of the symbols; the first code of a length is
\* twice the one that follows the last code of the length below, 0 at
\* length 1.  Symbols of length 0 have no code and take no part.
RECURSIVE RfcFirstCode(_, _)
RfcFirstCode(lengths, bits) ==
    IF bits <= 1 THEN 0
    ELSE 2 * (RfcFirstCode(lengths, bits - 1)
              + Cardinality({j \in DOMAIN lengths : lengths[j] = bits - 1}))

RfcCode(lengths, sym) ==
    RfcFirstCode(lengths, lengths[sym + 1])
    + Cardinality({j \in 1..sym : lengths[j] = lengths[sym + 1]})

\* the number whose bits, least significant first, are the `len` bits of
\* code, most significant first
RECURSIVE Mirror(_, _)
Mirror(code, len) ==
    IF len = 0 THEN 0
    ELSE (code % 2) * Pow2(len - 1) + Mirror(code \div 2, len - 1)

\* the Codeword that hands out the RFC's code of sym, most significant bit
\* first, and then a single 1
CodeThenOne(lengths, sym) ==
    Codeword_new(lengths[sym + 1] + 1,
                 Mirror(RfcCode(lengths, sym), lengths[sym + 1]) + Pow2(lengths[sym + 1]))

\* the sum over the used symbols of 2^(top - length): at most 2^top when
\* the lengths satisfy Kraft's inequality
RECURSIVE KraftSum(_, _)
KraftSum(lengths, top) ==
    IF lengths = <<>> THEN 0
    ELSE (IF Head(lengths) = 0 THEN 0 ELSE Pow2(top - Head(lengths)))
         + KraftSum(Tail(lengths), top)

LengthVectors ==
    {RfcLengths1, RfcLengths2, LongLengths} \cup
    {l \in UNION {[1..n -> 0..MaxLen] : n \in 1..MaxSyms} :
        /\ \E i \in DOMAIN l : l[i] # 0
        /\ KraftSum(l, MaxLen) <= Pow2(MaxLen)}

\* every Codeword of 1..MaxWordLen bits, and the codes of LongLengths
Words ==
    UNION {{Codeword_new(len, code) : code \in 0..(Pow2(len) - 1)} : len \in 1..MaxWordLen}
    \cup {CodeThenOne(LongLengths, sym) : sym \in {0, 2, 3, 5}}

TreeInit ==
    /\ DecoderAtRest
    /\ unit \in {[kind |-> "tree", lengths |-> l, built |-> FALSE, tree |-> HuffmanTree_new,
                  word |-> Codeword_new(0, 0), decoded |-> <<>>, rest |-> Codeword_new(0, 0)]
                 : l \in LengthVectors}

\* let tree = HuffmanTree::new_from_lengths(&ls)
BuildTree ==
    /\ unit.kind = "tree"
    /\ ~unit.built
    /\ LET r == new_from_lengths(unit.lengths)
       IN  r.ok /\ unit' = [unit EXCEPT !.built = TRUE, !.tree = r.tree]
    /\ UNCHANGED decoder

\* tree.decode(&mut code.clone()).unwrap(), once for a tree
DecodeWord(word) ==
    LET r == decode(unit.tree, src, word)
    IN  /\ unit.kind = "tree"
        /\ unit.built
        /\ unit.word.len = 0
        /\ r.ok
        /\ unit' = [unit EXCEPT !.word = word, !.decoded = r.val, !.rest = r.rd]
        /\ UNCHANGED decoder

TreeNext ==
    \/ BuildTree
    \/ \E word \in Words : DecodeWord(word)

TreeSpec == TreeInit /\ [][TreeNext]_vars

(***************************************************************************)
(* C12.  For lengths that satisfy Kraft's inequality, zero entries or      *)
(* not, the tree of new_from_lengths decodes the RFC's code of every used  *)
(* symbol, fed most significant bit first, to that symbol, and takes       *)
(* exactly the bits of the code: of a Codeword that holds the code and     *)
(* then a 1, the 1 is what is left.                                        *)
(***************************************************************************)
C12_CanonicalCodesDecode ==
    (unit.kind = "tree" /\ unit.built) =>
        \A sym \in 0..(Len(unit.lengths) - 1) :
            (unit.lengths[sym + 1] # 0 /\ unit.word = CodeThenOne(unit.lengths, sym)) =>
                /\ unit.decoded = <<sym>>
                /\ unit.rest.code = 1

\* the code 10 of symbol 2 of the lengths <<0, 2, 2>>, which has a zero
\* entry before it, has been decoded
C12_Witness ==
    /\ unit.kind = "tree"
    /\ unit.lengths = <<0, 2, 2>>
    /\ unit.word = CodeThenOne(<<0, 2, 2>>, 2)
    /\ unit.word = Codeword_new(3, 6)
    /\ unit.decoded = <<2>>
    /\ unit.rest.code = 1

\* the Codewords test_from_rfc_1 expects to decode to 0, 1, 2, 3
Expected1 ==
    <<Codeword_new(2, 1), Codeword_new(1, 0), Codeword_new(3, 3), Codeword_new(3, 7)>>

\* the Codewords test_from_rfc2 expects to decode to 0..7
Expected2 ==
    <<Codeword_new(3, 2), Codeword_new(3, 3), Codeword_new(3, 4), Codeword_new(3, 5),
      Codeword_new(3, 6), Codeword_new(2, 0), Codeword_new(4, 14), Codeword_new(4, 15)>>

(***************************************************************************)
(* C13.  Against the tree of the lengths [2, 1, 3, 3], the Codewords       *)
(* (2, 0b01), (1, 0b0), (3, 0b011), (3, 0b111), read least significant bit *)
(* first, decode to the symbols 0, 1, 2, 3.                                *)
(***************************************************************************)
C13_RfcExample1Decodes ==
    (unit.kind = "tree" /\ unit.built /\ unit.lengths = RfcLengths1) =>
        \A a \in DOMAIN Expected1 :
            unit.word = Expected1[a] => unit.decoded = <<a - 1>>

\* (3, 0b011) has been decoded, to 2
C13_Witness ==
    /\ unit.kind = "tree"
    /\ unit.lengths = RfcLengths1
    /\ unit.word = Codeword_new(3, 3)
    /\ unit.decoded = <<2>>

(***************************************************************************)
(* C14.  Against the tree of the lengths [3, 3, 3, 3, 3, 2, 4, 4], each    *)
(* of the Codewords (3, 0b010), (3, 0b011), (3, 0b100), (3, 0b101),        *)
(* (3, 0b110), (2, 0b00), (4, 0b1110), (4, 0b1111) decodes to its index,   *)
(* as test_from_rfc2 asserts.                                              *)
(***************************************************************************)
C14_RfcExample2Decodes ==
    (unit.kind = "tree" /\ unit.built /\ unit.lengths = RfcLengths2) =>
        \A a \in DOMAIN Expected2 :
            unit.word = Expected2[a] => unit.decoded = <<a - 1>>

(***************************************************************************)
(* BitReader on its own, the way bitreader.rs's test uses it: numbers of   *)
(* 1..MaxWidth bits are read with read_bits_exact, one after the other,    *)
(* from a BitReader over a byte string.  src and rd are the byte string    *)
(* and the BitReader; unit is                                              *)
(*   [kind |-> "bits", start, width, ok, val]                              *)
(* for the last read: the sum of the widths of the reads before it, its    *)
(* width, whether it succeeded and, if so, what it returned.               *)
(***************************************************************************)
\* the widths read; 2^MaxWidth is a number TLC can hold
MaxWidth == 20

\* the byte strings read from
BitSources == {DynRepeat, FullHeader}

BitsInit ==
    /\ src \in {s \in Sources : Inputs[s.id] \in BitSources /\ s.len = Len(Inputs[s.id])}
    /\ rd = BitReader_new
    /\ lookback = LookbackBuffer_new(LOOKBACK_WINDOW_SIZE)
    /\ state = MemberHeader
    /\ total_bytes_read = 0
    /\ call = [pc |-> "idle", buf_len |-> 0, spin |-> FALSE,
               entry |-> [state |-> MemberHeader, rd |-> BitReader_new,
                          lookback |-> LookbackBuffer_new(LOOKBACK_WINDOW_SIZE),
                          out_len |-> 0]]
    /\ out = <<>>
    /\ result = [kind |-> "None"]
    /\ unit = [kind |-> "bits", start |-> 0, width |-> 0, ok |-> TRUE, val |-> 0]

\* reader.read_bits_exact(n), after reads that succeeded
ReadBitsExact(n) ==
    LET r == read_bits_exact(src, rd, n)
    IN  /\ unit.kind = "bits"
        /\ unit.ok
        /\ rd' = r.rd
        /\ unit' = [kind |-> "bits", start |-> unit.start + unit.width, width |-> n,
                    ok |-> r.ok, val |-> IF r.ok THEN r.val ELSE 0]
        /\ UNCHANGED <<src, lookback, state, total_bytes_read, call, out, result>>

BitsNext == \E n \in 1..MaxWidth : ReadBitsExact(n)

BitsSpec == BitsInit /\ [][BitsNext]_vars

\* bit k of the source, the bits of a byte numbered from the least
\* significant one, the bytes in their order; k = 0 is the first bit
StreamBit(s, k) == (SrcByte(s, (k \div 8) + 1) \div Pow2(k % 8)) % 2

\* the number whose bit j is bit start + j of the source, for j < width
RECURSIVE StreamBits(_, _, _)
StreamBits(s, start, width) ==
    IF width = 0 THEN 0
    ELSE StreamBit(s, start) + 2 * StreamBits(s, start + 1, width - 1)

(***************************************************************************)
(* C15.  Whatever was read before, read_bits_exact(n) returns the next n   *)
(* bits of the byte string, its bits numbered least significant first      *)
(* within a byte, the earlier bit in the lower position of the result; it  *)
(* leaves the reader n bits further on, and fails only when fewer than n   *)
(* bits are left.                                                          *)
(***************************************************************************)
C15_ReadBitsExactIsLsbFirst ==
    (unit.kind = "bits" /\ unit.width > 0) =>
        /\ unit.ok <=> unit.start + unit.width <= 8 * src.len
        /\ unit.ok =>
              /\ unit.val = StreamBits(src, unit.start, unit.width)
              /\ 8 * rd.pos - rd.bits_count = unit.start + unit.width

\* 20 bits were read from bit 85 of DynRepeat on: the upper three bits of
\* 45, then C0, 21 and the lowest bit of 01
C15_Witness ==
    /\ unit.kind = "bits"
    /\ Inputs[src.id] = DynRepeat
    /\ unit.start = 85
    /\ unit.width = 20
    /\ unit.ok
    /\ unit.val = StreamBits(src, 85, 20)
    /\ unit.val > Pow2(16)

(***************************************************************************)
(* LookbackBuffer on its own: a buffer of 1..MaxWindow bytes (new(0)       *)
(* panics, and there is no buffer to go on with) is written                *)
(* with write_byte and write_data, up to MaxWritten bytes in all, and read *)
(* with read_lookback_exact.  lookback is the buffer; unit is              *)
(*   [kind |-> "lookback", history, read]                                  *)
(* with history the bytes written so far, in order, and read the last      *)
(* read_lookback_exact: the length n of its buf, its distance d, whether   *)
(* it succeeded and, if so, buf afterwards (n = d = 0 and an empty buf     *)
(* before any read).  The k-th byte written is k, so that no two bytes     *)
(* written are the same and none is the 0 that new() fills the buffer      *)
(* with.                                                                   *)
(***************************************************************************)
MaxWindow == 4

MaxWritten == 9

NoRead == [n |-> 0, d |-> 0, ok |-> TRUE, val |-> <<>>]

LookbackInit ==
    /\ src = [id |-> 1, len |-> 0]
    /\ rd = BitReader_new
    /\ \E size \in 0..MaxWindow :
          /\ "err" \notin DOMAIN LookbackBuffer_new(size)
          /\ lookback = LookbackBuffer_new(size)
    /\ state = MemberHeader
    /\ total_bytes_read = 0
    /\ call = [pc |-> "idle", buf_len |-> 0, spin |-> FALSE,
               entry |-> [state |-> MemberHeader, rd |-> BitReader_new,
                          lookback |-> LookbackBuffer_new(LOOKBACK_WINDOW_SIZE),
                          out_len |-> 0]]
    /\ out = <<>>
    /\ result = [kind |-> "None"]
    /\ unit = [kind |-> "lookback", history |-> <<>>, read |-> NoRead]

\* the next k bytes to write
NextBytes(k) == [i \in 1..k |-> Len(unit.history) + i]

\* lookback.write_byte(b)
WriteByte ==
    /\ unit.kind = "lookback"
    /\ Len(unit.history) < MaxWritten
    /\ lookback' = write_byte(lookback, NextBytes(1)[1]).lb
    /\ unit' = [unit EXCEPT !.history = @ \o NextBytes(1), !.read = NoRead]
    /\ UNCHANGED <<src, rd, state, total_bytes_read, call, out, result>>

\* lookback.write_data(buf), |buf| = k, when it succeeds
WriteData(k) ==
    /\ unit.kind = "lookback"
    /\ Len(unit.history) + k <= MaxWritten
    /\ write_data(lookback, NextBytes(k)).ok
    /\ lookback' = write_data(lookback, NextBytes(k)).lb
    /\ unit' = [unit EXCEPT !.history = @ \o NextBytes(k), !.read = NoRead]
    /\ UNCHANGED <<src, rd, state, total_bytes_read, call, out, result>>

\* lookback.read_lookback_exact(buf, d), |buf| = n
ReadLookback(n, d) ==
    LET r == read_lookback_exact(lookback, n, d)
    IN  /\ unit.kind = "lookback"
        /\ unit' = [unit EXCEPT !.read = [n |-> n, d |-> d, ok |-> r.ok,
                                          val |-> IF r.ok THEN r.val ELSE <<>>]]
        /\ UNCHANGED <<src, rd, lookback, state, total_bytes_read, call, out, result>>

LookbackNext ==
    \/ WriteByte
    \/ \E k \in 0..(MaxWindow + 1) : WriteData(k)
    \/ \E n, d \in 0..(MaxWindow + 1) : ReadLookback(n, d)

LookbackSpec == LookbackInit /\ [][LookbackNext]_vars

\* i modulo the size of the buffer, for i >= -size
ModSize(i) == (i + lookback.size) % lookback.size

(***************************************************************************)
(* C16.  After writes of W bytes in all to a buffer of size S, pos is      *)
(* W mod S and, for 1 <= k <= min(W, S), data[(pos - k) mod S] is the k-th *)
(* most recent byte written; a read_lookback_exact of n bytes at distance  *)
(* d, n <= d <= min(W, S), succeeds and yields the n bytes written from    *)
(* the d-th most recent on.                                                *)
(***************************************************************************)
C16_LookbackHoldsHistory ==
    unit.kind = "lookback" =>
        LET W == Len(unit.history)
            S == lookback.size
        IN  /\ lookback.pos = W % S
            /\ \A k \in 1..Min(W, S) :
                  DataAt(lookback.data, ModSize(lookback.pos - k)) = unit.history[W - k + 1]
            /\ (unit.read.n <= unit.read.d /\ unit.read.d <= Min(W, S)) =>
                  /\ unit.read.ok
                  /\ unit.read.val = SubSeq(unit.history, W - unit.read.d + 1,
                                            W - unit.read.d + unit.read.n)

\* in a buffer of 4 bytes written with 6, pos is 2; the 3 bytes at distance
\* 3 lie on both sides of the end of data, and were read
C16_Witness ==
    /\ unit.kind = "lookback"
    /\ lookback.size = 4
    /\ lookback.pos = 2
    /\ Len(unit.history) = 6
    /\ unit.read = [n |-> 3, d |-> 3, ok |-> TRUE, val |-> <<4, 5, 6>>]

(***************************************************************************)
(* C17.  A step of the decoder in NoCompressionBlock{len} with the len     *)
(* bytes of the block still in the source does not fail: it emits the next *)
(* min(len, dst.len()) bytes of the source, in order, the lookback buffer  *)
(* then ends with those bytes, and the state is left with len less the     *)
(* bytes emitted, or leaves the block when that is 0.                      *)
(***************************************************************************)
C17_StoredBlockCopiesLen ==
    [][(/\ unit.kind = "none"
        /\ call.pc = "running"
        /\ state.tag = "NoCompressionBlock"
        /\ src.len - rd.pos >= state.len)
       => LET n == Min(state.len, call.buf_len)
          IN  /\ result'.kind \notin {"Err", "Panic"}
              /\ out' = out \o SrcSlice(src, rd.pos, n)
              /\ \A k \in 1..Min(n, SmallDst) :
                    DataAt(lookback'.data,
                           (lookback'.pos - k + lookback.size) % lookback.size)
                      = SrcByte(src, rd.pos + n - k + 1)
              /\ state' = IF state.len = n
                          THEN (IF state.is_final THEN MemberTrailer ELSE BlockHeader)
                          ELSE NoCompressionBlock(state.len - n, state.is_final)]_vars

\* the same, of reads into a dst no longer than the lookback window
C17_UpToWindow ==
    [][(/\ unit.kind = "none"
        /\ call.pc = "running"
        /\ call.buf_len <= LOOKBACK_WINDOW_SIZE
        /\ state.tag = "NoCompressionBlock"
        /\ src.len - rd.pos >= state.len)
       => LET n == Min(state.len, call.buf_len)
          IN  /\ result'.kind \notin {"Err", "Panic"}
              /\ out' = out \o SrcSlice(src, rd.pos, n)
              /\ \A k \in 1..Min(n, SmallDst) :
                    DataAt(lookback'.data,
                           (lookback'.pos - k + lookback.size) % lookback.size)
                      = SrcByte(src, rd.pos + n - k + 1)
              /\ state' = IF state.len = n
                          THEN (IF state.is_final THEN MemberTrailer ELSE BlockHeader)
                          ELSE NoCompressionBlock(state.len - n, state.is_final)]_vars

\* the states inside a block
InBlock == {"NoCompressionBlock", "HuffmanBlock", "HuffmanBlockMatch"}

\* BFINAL of the block header the reader is at: the first of its three bits
BfinalAhead ==
    (IF rd.bits_count = 0 THEN SrcByte(src, rd.pos + 1) ELSE rd.bits) % 2

(***************************************************************************)
(* C18.  The block header records BFINAL as is_final; every step inside    *)
(* the block keeps is_final; a step that ends the block goes to            *)
(* MemberTrailer when is_final and to BlockHeader otherwise (a stored      *)
(* block ends with the step that emits its last byte); and MemberTrailer   *)
(* is entered in no other way.                                             *)
(***************************************************************************)
C18_TrailerOnlyAfterFinalBlock ==
    [][unit.kind = "none" =>
        /\ (state.tag = "BlockHeader" /\ state'.tag \in InBlock)
              => state'.is_final = (BfinalAhead = 1)
        /\ (state.tag \in InBlock /\ state'.tag \in InBlock)
              => state'.is_final = state.is_final
        /\ (state.tag \in InBlock /\ state'.tag \notin InBlock)
              => state' \in {BrokenStream,
                             IF state.is_final THEN MemberTrailer ELSE BlockHeader}
        /\ (state.tag = "NoCompressionBlock" /\ Len(out') - Len(out) = state.len)
              => state' = IF state.is_final THEN MemberTrailer ELSE BlockHeader
        /\ (state'.tag = "MemberTrailer" /\ state.tag # "MemberTrailer")
              => state.tag \in {"NoCompressionBlock", "HuffmanBlock"} /\ state.is_final
      ]_vars

\* the member of three blocks, a stored one among them, has been decoded up
\* to its trailer
C18_Witness ==
    /\ Inputs[src.id] = MultiBlock
    /\ state.tag = "MemberTrailer"
    /\ out = Payload(MultiBlock)

(***************************************************************************)
(* C19.  Every HuffmanBlockMatch state the decoder gets into has a length  *)
(* in 1..258 and a distance in 1..32768.  A step in HuffmanBlockMatch      *)
(* copies chunk = min(dst.len(), length, distance, window size) bytes,     *)
(* chunk <= distance, and returns them without an error; it goes back to   *)
(* HuffmanBlock exactly when chunk is the whole length, and otherwise      *)
(* stays in HuffmanBlockMatch with the length less chunk, and the same     *)
(* distance, trees and is_final.                                           *)
(***************************************************************************)
C19_MatchStepsWithinWindow ==
    [][unit.kind = "none" =>
        /\ state'.tag = "HuffmanBlockMatch" =>
              /\ state'.length \in 1..258
              /\ state'.distance \in 1..LOOKBACK_WINDOW_SIZE
        /\ (call.pc = "running" /\ state.tag = "HuffmanBlockMatch") =>
              LET chunk == Min(Min(call.buf_len, state.length),
                               Min(state.distance, LOOKBACK_WINDOW_SIZE))
              IN  /\ chunk <= state.distance
                  /\ result' = [kind |-> "Ok", n |-> chunk]
                  /\ Len(out') = Len(out) + chunk
                  /\ state'.tag = "HuffmanBlock" <=> state.length - chunk = 0
                  /\ state.length - chunk = 0 =>
                        state' = HuffmanBlock(state.litlen_tree, state.distance_tree,
                                              state.is_final)
                  /\ state.length - chunk # 0 =>
                        state' = [state EXCEPT !.length = @ - chunk]
      ]_vars

\* the longest match at the greatest distance has been copied: the 258
\* bytes after the first 32768 are the first 258 again
FarMatchCopied ==
    /\ Inputs[src.id] = FarMatch
    /\ state.tag = "HuffmanBlock"
    /\ result = [kind |-> "Ok", n |-> 258]
    /\ Len(out) = LOOKBACK_WINDOW_SIZE + 258
    /\ \A i \in 1..258 : out[LOOKBACK_WINDOW_SIZE + i] = out[i]

\* a read into a dst of 2 bytes has returned the first 2 bytes of the match
\* (length 3, distance 3) of MultiBlock, and 1 is left of it
C19_Witness ==
    /\ Inputs[src.id] = MultiBlock
    /\ call.pc = "idle"
    /\ call.buf_len = 2
    /\ result = [kind |-> "Ok", n |-> 2]
    /\ state.tag = "HuffmanBlockMatch"
    /\ state.length = 1
    /\ state.distance = 3
    /\ out = <<104, 105, 120, 104, 105>>

(***************************************************************************)
(* C20.  A dynamic-Huffman header whose first code-length symbol is 16     *)
(* makes the header fail: the decoder of such an input never gets into the *)
(* block, and emits nothing.                                               *)
(***************************************************************************)
C20_Repeat16FirstFails ==
    Inputs[src.id] = Repeat16First =>
        /\ state.tag \notin {"HuffmanBlock", "HuffmanBlockMatch"}
        /\ out = <<>>

\* the read that returned did not find the decoder in BrokenStream
FirstFailure == call.entry.state.tag # "BrokenStream"

(***************************************************************************)
(* C21.  A dynamic-Huffman header whose repeat codes give more code        *)
(* lengths than HLIT + HDIST + 258 makes the read return the error         *)
(* InvalidData: the decoder of such an input does not panic, never gets    *)
(* into the block, and with the whole input the read that fails returns    *)
(* InvalidData.                                                            *)
(***************************************************************************)
C21_RepeatOverrunIsInvalidData ==
    Inputs[src.id] = RepeatOverrun =>
        /\ result.kind # "Panic"
        /\ state.tag \notin {"HuffmanBlock", "HuffmanBlockMatch"}
        /\ (Complete /\ Returned /\ FirstFailure) => result = [kind |-> "Err", err |-> "InvalidData"]

(***************************************************************************)
(* C22.  Decoding the literal/length symbol 286 in a Huffman block makes   *)
(* the read return the error InvalidData: the decoder of an input whose    *)
(* block begins with that symbol emits nothing, never gets to the member   *)
(* trailer, and with the whole input the first read returns InvalidData.   *)
(***************************************************************************)
C22_Litlen286IsInvalidData ==
    Inputs[src.id] = Litlen286 =>
        /\ out = <<>>
        /\ state.tag \notin {"MemberTrailer", "EndOfFile"} \/ src.len = 0
        /\ (Complete /\ Returned /\ FirstFailure) => result = [kind |-> "Err", err |-> "InvalidData"]

\* the inputs whose member header has a field that is not UTF-8
BadUtf8 == {BadName, BadComment, BadExtra}

(***************************************************************************)
(* C23.  A member header whose FEXTRA, FNAME or FCOMMENT field is not      *)
(* UTF-8 makes the read return the error InvalidData, whichever the field: *)
(* the decoder of such an input never gets past the member header, and     *)
(* with the whole input the first read returns InvalidData.                *)
(***************************************************************************)
C23_BadUtf8IsInvalidData ==
    Inputs[src.id] \in BadUtf8 =>
        /\ state.tag \in {"MemberHeader", "BrokenStream", "EndOfFile"}
        /\ state.tag = "EndOfFile" => src.len = 0
        /\ (Complete /\ Returned /\ FirstFailure) => result = [kind |-> "Err", err |-> "InvalidData"]

\* the same of the FEXTRA field alone
C23_BadExtraIsInvalidData ==
    Inputs[src.id] = BadExtra =>
        /\ state.tag \in {"MemberHeader", "BrokenStream", "EndOfFile"}
        /\ state.tag = "EndOfFile" => src.len = 0
        /\ (Complete /\ Returned /\ FirstFailure) => result = [kind |-> "Err", err |-> "InvalidData"]

\* the inputs on which the decoder panics for another reason than an
\* assertion of the BitReader: the todo!() of the fixed-Huffman header, an
\* index past the end of all_lengths or of the distance tables
OtherPanics == {EmptyFixed, TwoFixedA, RepeatOverrun, Dist30}

(***************************************************************************)
(* C24.  No byte-level operation of the BitReader is invoked with a        *)
(* partial byte buffered.  The handlers that begin with one                *)
(* (read_member_header, read_no_compression_block) are entered with        *)
(* bits_count = 0; no step in MemberHeader, MemberTrailer or               *)
(* NoCompressionBlock, and no block header of a stored block, panics; and  *)
(* the decoder panics at all only in a block header or a Huffman block of  *)
(* the inputs that make it panic otherwise.                                *)
(***************************************************************************)
C24_ByteReadsAreAligned ==
    [][unit.kind = "none" =>
        /\ state.tag \in {"MemberHeader", "NoCompressionBlock"} => rd.bits_count = 0
        /\ state'.tag \in {"MemberHeader", "NoCompressionBlock"} => rd'.bits_count = 0
        /\ (\/ state.tag \in {"MemberHeader", "MemberTrailer", "NoCompressionBlock"}
            \/ HeaderAhead /\ BtypeAhead = NO_COMPRESSION)
              => result'.kind # "Panic"
        /\ (result'.kind = "Panic" /\ result.kind # "Panic")
              => /\ state.tag \in {"BlockHeader", "HuffmanBlock"}
                 /\ Inputs[src.id] \in OtherPanics
      ]_vars

\* a read that found the decoder inside the dynamic block of DynThenStored,
\* in the middle of a byte, has gone through the header of the stored block
\* and returned its byte
C24_Witness ==
    /\ Inputs[src.id] = DynThenStored
    /\ call.pc = "idle"
    /\ call.entry.state.tag = "HuffmanBlock"
    /\ call.entry.rd.bits_count > 0
    /\ state.tag = "MemberTrailer"
    /\ rd.bits_count = 0
    /\ result = [kind |-> "Ok", n |-> 1]
    /\ out = <<97, 98>>

(***************************************************************************)
(* C25.  Decoding the distance symbol 30 in a Huffman block gives an error *)
(* result, not an access outside the distance tables: the decoder of an    *)
(* input whose block holds that symbol does not panic, and with the whole  *)
(* input the first read returns an error.                                  *)
(***************************************************************************)
C25_Dist30IsAnError ==
    Inputs[src.id] = Dist30 =>
        /\ result.kind # "Panic"
        /\ state.tag # "HuffmanBlockMatch"
        /\ (Complete /\ Returned /\ FirstFailure) => result.kind = "Err"

(***************************************************************************)
(* C26.  A step in HuffmanBlockMatch whose distance is more than the bytes *)
(* put out so far fails and puts out nothing; any other puts out only      *)
(* bytes equal to the byte `distance` before them in the output.           *)
(***************************************************************************)
C26_MatchCopiesOnlyOutput ==
    [][(unit.kind = "none" /\ call.pc = "running" /\ state.tag = "HuffmanBlockMatch") =>
         IF state.distance > Len(out)
         THEN result'.kind = "Err" /\ out' = out
         ELSE /\ SubSeq(out', 1, Len(out)) = out
              /\ \A i \in (Len(out) + 1)..Len(out') : out'[i] = out'[i - state.distance]
      ]_vars

\* the same of the matches whose distance is within the output
C26_WithinOutput ==
    [][(unit.kind = "none" /\ call.pc = "running" /\ state.tag = "HuffmanBlockMatch"
          /\ state.distance <= Len(out)) =>
         /\ SubSeq(out', 1, Len(out)) = out
         /\ \A i \in (Len(out) + 1)..Len(out') : out'[i] = out'[i - state.distance]
      ]_vars

====
